---- MODULE Spec2Model ----
(***************************************************************************)
(* openapi_to_pydantic: translation of the components.schemas of an        *)
(* OpenAPI document into a Python module of pydantic models and enums.     *)
(*                                                                         *)
(* Representation of Python values                                         *)
(*   dict (schema node)  function from key strings to values; a key is     *)
(*                       present iff it is in the DOMAIN                   *)
(*   ordered dict whose keys are data (schemas, properties)                *)
(*                       sequence of <<key, value>> pairs, insertion order *)
(*   list                sequence                                          *)
(*   str that the code parses ($ref)                                       *)
(*                       sequence of tokens, "/" being a token of its own  *)
(*   JSON literal (enum member, default)   <<"str", s>> or <<"int", n>>    *)
(*   ast node            tuple <<constructor name, fields ...>>            *)
(*   raised exception    <<"Raise", exception name>>                       *)
(***************************************************************************)
EXTENDS Integers, Sequences, FiniteSets, TLC

VARIABLES
    spec,          \* the loaded document (dict)
    pc,            \* position in openapi_to_pydantic: loop / returned / raised
    i,             \* index of the next components.schemas item of the for loop
    models,        \* list[ast.ClassDef]
    forward_refs,  \* list of update_forward_refs() call statements
    main,          \* ast.Module.body of the returned module
    args,          \* parsed command line (argparse.Namespace)
    step,          \* position in the command-line script
    outfile,       \* contents of the path given with -o: "absent" or text
    outfile0,      \* what that path held before the run
    stdout,        \* what was printed to standard output
    code           \* the formatted text

vars == <<spec, pc, i, models, forward_refs, main, args, step, outfile, outfile0, stdout, code>>
convVars == <<spec, pc, i, models, forward_refs, main>>
cliVars == <<args, step, outfile, outfile0, stdout, code>>

----------------------------------------------------------------------------
(* Bounds of the model *)

MaxSchemas == 2     \* entries of components.schemas
MaxEnum == 27       \* members of an enum
MaxBranches == 2    \* elements of an anyOf / allOf list
MaxDepth == 1       \* nesting of items / anyOf / allOf below a property's own combinator

----------------------------------------------------------------------------
(* Python values *)

PyStr(s) == <<"str", s>>
PyInt(n) == <<"int", n>>

Raise(e) == <<"Raise", e>>
IsRaise(x) == x[1] = "Raise"

Has(config, key) == key \in DOMAIN config
In(x, list) == \E k \in 1..Len(list) : list[k] = x

\* ordered dict: key in dict, dict[key]
MapHas(m, key) == \E k \in 1..Len(m) : m[k][1] = key
MapGet(m, key) == m[CHOOSE k \in 1..Len(m) : m[k][1] = key][2]

\* building a list left to right: whether an element raises, and the first that does
AnyRaise(list) == \E k \in 1..Len(list) : IsRaise(list[k])
FirstRaise(list) ==
    list[CHOOSE k \in 1..Len(list) : IsRaise(list[k]) /\ \A j \in 1..(k-1) : ~IsRaise(list[j])]

\* str.startswith("#/") on a tokenised string
startswith_hash_slash(ref) == Len(ref) >= 2 /\ ref[1] = "#" /\ ref[2] = "/"

\* str.split("/"): the list of segments, each the tokens between two "/"
RECURSIVE split(_)
split(s) ==
    IF \A k \in 1..Len(s) : s[k] # "/"
    THEN <<s>>
    ELSE LET p == CHOOSE k \in 1..Len(s) : s[k] = "/" /\ \A j \in 1..(k-1) : s[j] # "/"
         IN <<SubSeq(s, 1, p - 1)>> \o split(SubSeq(s, p + 1, Len(s)))

----------------------------------------------------------------------------
(* ast constructors *)

Name(id) == <<"Name", id>>
Constant(value) == <<"Constant", value>>
Attribute(value, attr) == <<"Attribute", value, attr>>
Subscript(value, slice) == <<"Subscript", value, slice>>
Tuple(elts) == <<"Tuple", elts>>
AnnAssign(target, annotation) == <<"AnnAssign", target, annotation>>
AnnAssignValue(target, annotation, value) == <<"AnnAssign", target, annotation, value>>
Assign(target, value) == <<"Assign", target, value>>
ClassDef(name, bases, body) == <<"ClassDef", name, bases, body>>
ImportFrom(module, name) == <<"ImportFrom", module, name>>
Import(name) == <<"Import", name>>
Expr(value) == <<"Expr", value>>
Call(func) == <<"Call", func>>

----------------------------------------------------------------------------
(* reduce(getitem, ref.split("/")[1:], spec) and obj["title"]               *)
(* A value met on the way is <<kind, value>>: the document, one of its      *)
(* fixed sub-dicts, an ordered dict of nodes, a node, or a leaf (str, list, *)
(* literal), which a str key cannot index.                                  *)

getitem(obj, seg) ==
    LET kind == obj[1]
        val == obj[2]
        isKey == Len(seg) = 1
        key == seg[1]
    IN  IF kind = "leaf" THEN Raise("TypeError")
        ELSE IF ~isKey THEN Raise("KeyError")
        ELSE IF kind = "omap" THEN
            IF MapHas(val, key) THEN <<"node", MapGet(val, key)>> ELSE Raise("KeyError")
        ELSE IF ~Has(val, key) THEN Raise("KeyError")
        ELSE IF kind = "spec" THEN <<(IF key = "components" THEN "components" ELSE "info"), val[key]>>
        ELSE IF kind = "components" THEN <<"omap", val[key]>>
        ELSE IF kind = "info" THEN <<"leaf", val[key]>>
        ELSE \* a schema node
            IF key = "properties" THEN <<"omap", val[key]>>
            ELSE IF key = "items" THEN <<"node", val[key]>>
            ELSE <<"leaf", val[key]>>

RECURSIVE reduce_getitem(_, _)
reduce_getitem(path, obj) ==
    IF path = <<>> \/ IsRaise(obj) THEN obj
    ELSE reduce_getitem(Tail(path), getitem(obj, Head(path)))

\* a fault of the $ref case: a failed lookup gives typing.Any
ref_annotation_silent(ref, doc) ==
    LET obj == reduce_getitem(Tail(split(ref)), <<"spec", doc>>)
        title == IF IsRaise(obj) THEN obj ELSE getitem(obj, <<"title">>)
    IN  IF IsRaise(title) \/ title[1] # "leaf"
        THEN Attribute(Name("typing"), "Any")
        ELSE Constant(title[2])

\* the body of the $ref case: the ast.Constant of the target's title, or the exception
ref_annotation(ref, doc) ==
    LET obj == reduce_getitem(Tail(split(ref)), <<"spec", doc>>)
        title == IF IsRaise(obj) THEN obj ELSE getitem(obj, <<"title">>)
    IN  IF IsRaise(title) THEN title ELSE Constant(title[2])

----------------------------------------------------------------------------
(* has_ref *)

\* a fault of has_ref: the anyOf case before the array case
has_ref_case_anyOf_first(config) ==
    IF Has(config, "$ref") THEN "$ref"
    ELSE IF Has(config, "anyOf") THEN "anyOf"
    ELSE IF Has(config, "type") /\ config["type"] = "array" /\ Has(config, "items") THEN "array"
    ELSE "_"

\* the case of the match statement that is taken
has_ref_case(config) ==
    IF Has(config, "$ref") THEN "$ref"
    ELSE IF Has(config, "type") /\ config["type"] = "array" /\ Has(config, "items") THEN "array"
    ELSE IF Has(config, "anyOf") THEN "anyOf"
    ELSE "_"

RECURSIVE has_ref(_)
has_ref(config) ==
    LET case == has_ref_case(config)
    IN  IF case = "$ref" THEN TRUE
        ELSE IF case = "array" THEN has_ref(config["items"])
        ELSE IF case = "anyOf" THEN \E k \in 1..Len(config["anyOf"]) : has_ref(config["anyOf"][k])
        ELSE FALSE

----------------------------------------------------------------------------
(* get_type_annotation *)

TypeIs(config, t) == Has(config, "type") /\ config["type"] = t
FormatIs(config, f) == Has(config, "format") /\ config["format"] = f

\* a fault of get_type_annotation: the boolean case before the $ref case
type_case_boolean_first(config) ==
    IF TypeIs(config, "integer") THEN "integer"
    ELSE IF TypeIs(config, "string") /\ FormatIs(config, "date-time") THEN "date-time"
    ELSE IF TypeIs(config, "string") /\ (FormatIs(config, "uuid") \/ FormatIs(config, "uuid4")) THEN "uuid"
    ELSE IF TypeIs(config, "string") THEN "string"
    ELSE IF TypeIs(config, "boolean") THEN "boolean"
    ELSE IF Has(config, "$ref") /\ startswith_hash_slash(config["$ref"]) THEN "$ref"
    ELSE IF TypeIs(config, "array") /\ Has(config, "items") THEN "array"
    ELSE IF Has(config, "anyOf") THEN "anyOf"
    ELSE IF Has(config, "allOf") /\ Len(config["allOf"]) = 1 THEN "allOf"
    ELSE "_"

\* the case of the match statement that is taken
type_case(config) ==
    IF TypeIs(config, "integer") THEN "integer"
    ELSE IF TypeIs(config, "string") /\ FormatIs(config, "date-time") THEN "date-time"
    ELSE IF TypeIs(config, "string") /\ (FormatIs(config, "uuid") \/ FormatIs(config, "uuid4")) THEN "uuid"
    ELSE IF TypeIs(config, "string") THEN "string"
    ELSE IF Has(config, "$ref") /\ startswith_hash_slash(config["$ref"]) THEN "$ref"
    ELSE IF TypeIs(config, "array") /\ Has(config, "items") THEN "array"
    ELSE IF Has(config, "anyOf") THEN "anyOf"
    ELSE IF Has(config, "allOf") /\ Len(config["allOf"]) = 1 THEN "allOf"
    ELSE IF TypeIs(config, "boolean") THEN "boolean"
    ELSE "_"

RECURSIVE get_type_annotation(_, _)
get_type_annotation(config, doc) ==
    LET case == type_case(config)
    IN  IF case = "integer" THEN Name("int")
        ELSE IF case = "date-time" THEN Name("datetime")
        ELSE IF case = "uuid" THEN Name("UUID")
        ELSE IF case = "string" THEN Name("str")
        ELSE IF case = "$ref" THEN ref_annotation(config["$ref"], doc)
        ELSE IF case = "array" THEN
            LET slice == get_type_annotation(config["items"], doc)
            IN  IF IsRaise(slice) THEN slice ELSE Subscript(Name("list"), slice)
        ELSE IF case = "anyOf" THEN
            LET items == config["anyOf"]
                elts == [k \in 1..Len(items) |-> get_type_annotation(items[k], doc)]
            IN  IF AnyRaise(elts) THEN FirstRaise(elts)
                ELSE Subscript(Attribute(Name("typing"), "Union"), Tuple(elts))
        ELSE IF case = "allOf" THEN get_type_annotation(config["allOf"][1], doc)
        ELSE IF case = "boolean" THEN Name("bool")
        ELSE Attribute(Name("typing"), "Any")

----------------------------------------------------------------------------
(* get_field, get_enum_bases, get_enum_body *)

Optional(t) == Subscript(Attribute(Name("typing"), "Optional"), t)

\* a fault of get_field: the test without `and required`
get_field_optional_when_empty(name, config, doc, required) ==
    LET t == get_type_annotation(config, doc)
        annotation == IF ~In(name, required) THEN Optional(t) ELSE t
    IN  IF IsRaise(t) THEN t
        ELSE IF Has(config, "default")
        THEN AnnAssignValue(Name(name), annotation, Constant(config["default"]))
        ELSE AnnAssign(Name(name), annotation)

get_field(name, config, doc, required) ==
    LET t == get_type_annotation(config, doc)
        annotation == IF ~In(name, required) /\ required # <<>> THEN Optional(t) ELSE t
    IN  IF IsRaise(t) THEN t
        ELSE IF Has(config, "default")
        THEN AnnAssignValue(Name(name), annotation, Constant(config["default"]))
        ELSE AnnAssign(Name(name), annotation)

\* the enum_type of a schema without "type" (Python None)
NoneType == "<None>"

get_enum_bases(enum_type) ==
    IF enum_type = "string" THEN <<Name("str"), Name("Enum")>>
    ELSE IF enum_type = "integer" THEN <<Name("int"), Name("Enum")>>
    ELSE <<Name("Enum")>>

\* chr(n) for n >= 97: the characters from "a" on, in code point order
CharsFrom97 == <<"a", "b", "c", "d", "e", "f", "g", "h", "i", "j", "k", "l", "m",
                 "n", "o", "p", "q", "r", "s", "t", "u", "v", "w", "x", "y", "z",
                 "{", "|", "}", "~", "\\x7f", "\\x80", "\\x81", "\\x82">>
chr(n) == PyStr(CharsFrom97[n - 96])

get_enum_body(enum_type, members) ==
    IF enum_type = "integer"
    THEN [k \in 1..Len(members) |-> Assign(Name(chr(97 + (k - 1))), Constant(members[k]))]
    ELSE [k \in 1..Len(members) |-> Assign(Name(members[k]), Constant(members[k]))]

----------------------------------------------------------------------------
(* openapi_to_pydantic *)

module_imports == <<ImportFrom("pydantic", "BaseModel"), ImportFrom("enum", "Enum"),
                    ImportFrom("datetime", "datetime"), ImportFrom("uuid", "UUID"),
                    Import("typing")>>

schemas == spec["components"]["schemas"]

\* a fault of the match on a schema: the enum cases before the class case
schema_case_enum_first(schema) ==
    IF Has(schema, "type") /\ Has(schema, "enum") THEN "typed_enum"
    ELSE IF Has(schema, "enum") THEN "enum"
    ELSE IF TypeIs(schema, "object") /\ Has(schema, "properties") THEN "class"
    ELSE "_"

\* the case of the match statement on a schema that is taken
schema_case(schema) ==
    IF TypeIs(schema, "object") /\ Has(schema, "properties") THEN "class"
    ELSE IF Has(schema, "type") /\ Has(schema, "enum") THEN "typed_enum"
    ELSE IF Has(schema, "enum") THEN "enum"
    ELSE "_"

\* schema.get("required", [])
required_of(schema) == IF Has(schema, "required") THEN schema["required"] ELSE <<>>

\* list(starmap(partial(get_field, required=required, spec=spec), properties.items()))
class_body(properties, doc, required) ==
    [k \in 1..Len(properties) |-> get_field(properties[k][1], properties[k][2], doc, required)]

\* any(map(has_ref, properties.values()))
any_has_ref(properties) == \E k \in 1..Len(properties) : has_ref(properties[k][2])

update_forward_refs(name) == Expr(Call(Attribute(Name(name), "update_forward_refs")))

Module(body) == <<"Module", body>>

\* a fault of the extend calls: forward_refs before models
main_body_refs_first(imports, ms, refs) == imports \o refs \o ms

\* the three main.body.extend calls
main_body(imports, ms, refs) == imports \o ms \o refs

\* one iteration of the for loop on st = [models, forward_refs], or the exception
loop_body(st, name, schema, doc) ==
    LET case == schema_case(schema)
        required == required_of(schema)
    IN  IF case = "class" THEN
            LET body == class_body(schema["properties"], doc, required)
            IN  IF AnyRaise(body) THEN FirstRaise(body)
                ELSE <<"ok",
                     [models |-> Append(st.models, ClassDef(name, <<Name("BaseModel")>>, body)),
                      forward_refs |-> IF any_has_ref(schema["properties"])
                                       THEN Append(st.forward_refs, update_forward_refs(name))
                                       ELSE st.forward_refs]>>
        ELSE IF case = "typed_enum" THEN
            <<"ok",
            [models |-> Append(st.models, ClassDef(name, get_enum_bases(schema["type"]),
                                                   get_enum_body(schema["type"], schema["enum"]))),
             forward_refs |-> st.forward_refs]>>
        ELSE IF case = "enum" THEN
            <<"ok",
            [models |-> Append(st.models, ClassDef(name, get_enum_bases(NoneType),
                                                   get_enum_body(NoneType, schema["enum"]))),
             forward_refs |-> st.forward_refs]>>
        ELSE <<"ok", st>>

----------------------------------------------------------------------------
(* The documents the model is run on *)

SchemaNames == <<"A", "B", "C", "D">>

Opt(key, S) == {<<>>} \cup {key :> v : v \in S}
Lists(S, n) == UNION {[1..k -> S] : k \in 0..n}

RefTo(name) == <<"#", "/", "components", "/", "schemas", "/", name>>
RefInfo == <<"#", "/", "info">>
RefExternal == <<"other.yaml", "#", "/", "components", "/", "schemas", "/", "A">>
RefProperty == RefTo("A") \o <<"/", "properties", "/", "a">>
RefTitle == RefTo("A") \o <<"/", "title">>

\* nodes without a combinator
Atoms == {[type |-> "integer"], [type |-> "string"],
          "$ref" :> RefTo("A"), "$ref" :> RefTo("Missing"),
          [type |-> "boolean"] @@ ("$ref" :> RefTo("B"))}

\* the nodes the longer anyOf / allOf lists are made of
BranchAtoms == {[type |-> "integer"], [type |-> "string"], "$ref" :> RefTo("A"), "$ref" :> RefTo("Missing")}

Wrap(S) == {[type |-> "array", items |-> n] : n \in S}
           \cup {[anyOf |-> <<n>>] : n \in S}
           \cup {[allOf |-> <<n>>] : n \in S}

RECURSIVE Nested(_)
Nested(d) == IF d = 0 THEN Atoms ELSE Atoms \cup Wrap(Nested(d - 1))

TypeFormats ==
    {<<>>}
    \cup {[type |-> t] : t \in {"integer", "string", "boolean", "array", "object"}}
    \cup {[type |-> "string", format |-> f] : f \in {"date-time", "uuid", "uuid4", "email"}}
    \cup {[type |-> "integer", format |-> "date-time"], [format |-> "uuid"]}

LeafNodes ==
    {t @@ r : t \in TypeFormats,
              r \in Opt("$ref", {RefTo("A"), RefTo("Missing"), RefExternal})}
    \cup {"$ref" :> r : r \in {RefTo("B"), RefInfo, RefProperty, RefTitle}}
    \cup {[type |-> "boolean", default |-> PyInt(0)], [default |-> PyInt(1)]}

ArrayNodes ==
    {t @@ r @@ [items |-> n] : t \in Opt("type", {"array"}),
                               r \in Opt("$ref", {RefExternal}),
                               n \in Nested(MaxDepth)}

AnyOfNodes ==
    {t @@ [anyOf |-> l] : t \in Opt("type", {"boolean", "array"}), l \in Lists(BranchAtoms, MaxBranches)}
    \cup {[anyOf |-> <<n>>] : n \in Nested(MaxDepth)}

AllOfNodes ==
    {t @@ [allOf |-> l] : t \in Opt("type", {"boolean"}), l \in Lists(BranchAtoms, MaxBranches)}
    \cup {[allOf |-> <<n>>] : n \in Nested(MaxDepth)}

MixedNodes ==
    {[anyOf |-> l1, allOf |-> l2] : l1 \in Lists(Atoms, 1), l2 \in Lists(Atoms, 1)}
    \cup {[type |-> "array", items |-> n, anyOf |-> <<m>>] : n \in Atoms, m \in Atoms}

PropNodes == LeafNodes \cup ArrayNodes \cup AnyOfNodes \cup AllOfNodes \cup MixedNodes

EnumLens == {0, 1, 2, 26, MaxEnum}
IntMembers(n) == [k \in 1..n |-> PyInt(10 * k)]
StrMembers(n) == [k \in 1..n |-> PyStr(CharsFrom97[((k - 1) % 26) + 1])]

EnumSchemas ==
    {t @@ [enum |-> m] : t \in Opt("type", {"integer", "string", "object", "number"}),
                         m \in {IntMembers(n) : n \in EnumLens} \cup {StrMembers(2)}}

ClassSchemas ==
    {[type |-> "object", properties |-> <<<<"a", n>>>>] : n \in PropNodes}
    \cup {[type |-> "object", properties |-> <<<<"a", n>>, <<"b", m>>>>] @@ r :
            n \in Atoms, m \in Atoms,
            r \in Opt("required", {<<>>, <<"a">>, <<"b">>, <<"b", "a">>, <<"c">>})}
    \cup {[type |-> "object", properties |-> <<<<"b", [type |-> "string"]>>>>] @@ e @@ r :
            e \in Opt("enum", {StrMembers(2)}), r \in Opt("required", {<<>>, <<"b">>})}
    \cup {[type |-> "object", properties |-> <<>>],
          [type |-> "object", title |-> "Other", properties |-> <<<<"self", "$ref" :> RefTo("A")>>>>],
          [type |-> "object", title |-> "A", required |-> <<"x">>,
           properties |-> <<<<"x", [type |-> "array", items |-> ("$ref" :> RefTo("A"))]>>,
                            <<"y", [type |-> "integer", default |-> PyInt(0)]>>>>]}

OtherSchemas ==
    {<<>>, [type |-> "object"], [type |-> "string"], [type |-> "array", items |-> [type |-> "integer"]],
     [properties |-> <<<<"a", [type |-> "integer"]>>>>],
     [type |-> "array", properties |-> <<<<"a", "$ref" :> RefTo("Missing")>>>>],
     [anyOf |-> <<"$ref" :> RefTo("A")>>], "$ref" :> RefTo("Missing"),
     [type |-> "array", items |-> [type |-> "integer"], title |-> "A"]}

VariedSchemas == ClassSchemas \cup EnumSchemas \cup OtherSchemas

\* the schemas that surround the varied one: what a $ref to them finds
ContextSchemas(name) ==
    <<[type |-> "object", title |-> name, properties |-> <<<<"peer", "$ref" :> RefTo(name)>>>>],
      [type |-> "string", enum |-> StrMembers(2)]>>

\* the n schemas named SchemaNames[1..n]: v at position p, context schema c[k] elsewhere
SchemaList(n, p, v, c) ==
    [k \in 1..n |-> <<SchemaNames[k], IF k = p THEN v ELSE ContextSchemas(SchemaNames[k])[c[k]]>>]

Document(ss) == [info |-> [title |-> "API"], components |-> [schemas |-> ss]]

\* spec is one of the documents of the model
IsDocument(doc) ==
    \/ doc = Document(<<>>)
    \/ \E n \in 1..MaxSchemas : \E p \in 1..n : \E v \in VariedSchemas :
         \E c \in [(1..n) \ {p} -> 1..Len(ContextSchemas(""))] :
            doc = Document(SchemaList(n, p, v, c))

----------------------------------------------------------------------------
(* The actions of openapi_to_pydantic(spec) *)

\* the state of the command line script when the function is called on its own
NoArgs == [openapi |-> <<"", "">>, output |-> FALSE, debug |-> FALSE]
Absent == <<"absent">>

Init ==
    /\ IsDocument(spec)
    /\ pc = "loop"
    /\ i = 1
    /\ models = <<>>
    /\ forward_refs = <<>>
    /\ main = Module(<<>>)
    /\ args = NoArgs
    /\ step = "call"
    /\ outfile = Absent
    /\ outfile0 = Absent
    /\ stdout = <<>>
    /\ code = <<>>

\* lines 169-221: the iteration of the for loop on item i
Iterate ==
    LET r == loop_body([models |-> models, forward_refs |-> forward_refs],
                       schemas[i][1], schemas[i][2], spec)
    IN  IF IsRaise(r)
        THEN /\ pc' = "raised"
             /\ UNCHANGED <<i, models, forward_refs>>
        ELSE /\ models' = r[2].models
             /\ forward_refs' = r[2].forward_refs
             /\ i' = i + 1
             /\ pc' = pc

InLoop == pc = "loop" /\ i <= Len(schemas)

ClassCase ==
    /\ InLoop /\ schema_case(schemas[i][2]) = "class"
    /\ Iterate
    /\ UNCHANGED <<spec, main>> /\ UNCHANGED cliVars

TypedEnumCase ==
    /\ InLoop /\ schema_case(schemas[i][2]) = "typed_enum"
    /\ Iterate
    /\ UNCHANGED <<spec, main>> /\ UNCHANGED cliVars

EnumCase ==
    /\ InLoop /\ schema_case(schemas[i][2]) = "enum"
    /\ Iterate
    /\ UNCHANGED <<spec, main>> /\ UNCHANGED cliVars

NoCase ==
    /\ InLoop /\ schema_case(schemas[i][2]) = "_"
    /\ Iterate
    /\ UNCHANGED <<spec, main>> /\ UNCHANGED cliVars

\* lines 223-227
Return ==
    /\ pc = "loop" /\ i > Len(schemas)
    /\ main' = Module(main_body(module_imports, models, forward_refs))
    /\ pc' = "returned"
    /\ UNCHANGED <<spec, i, models, forward_refs>> /\ UNCHANGED cliVars

Next == ClassCase \/ TypedEnumCase \/ EnumCase \/ NoCase \/ Return

Spec == Init /\ [][Next]_vars

----------------------------------------------------------------------------
(* The command line script, __main__.py *)

\* the paths given as the positional argument, as <<stem, extension>>, and those that exist
InputPaths == {<<"api", ".json">>, <<"api", ".yaml">>, <<"api", ".yml">>, <<"api", ".txt">>,
               <<"api", "">>, <<"gone", ".json">>}
ExistingPaths == {p \in InputPaths : p[1] = "api"}

\* mimetypes.guess_type after the two add_type calls
guess_type(name) ==
    IF name[2] = ".json" THEN "application/json"
    ELSE IF name[2] \in {".yaml", ".yml"} THEN "application/yaml"
    ELSE IF name[2] = ".txt" THEN "text/plain"
    ELSE "None"

\* the documents the input file may hold
LoadedDocs ==
    {Document(<<>>)}
    \cup {Document(<<<<"A", v>>>>) : v \in OtherSchemas \cup EnumSchemas}
    \cup {Document(<<<<"A", [type |-> "object", properties |-> <<<<"a", n>>>>]>>, <<"B", v>>>>) :
            n \in Atoms, v \in {ContextSchemas("B")[k] : k \in 1..Len(ContextSchemas("B"))}}

InitCli ==
    /\ spec = <<>>
    /\ pc = "idle"
    /\ i = 1
    /\ models = <<>>
    /\ forward_refs = <<>>
    /\ main = Module(<<>>)
    /\ args = NoArgs
    /\ step = "parse_args"
    /\ outfile0 \in {Absent, <<"text", "old">>}
    /\ outfile = outfile0
    /\ stdout = <<>>
    /\ code = <<>>

\* lines 19-29: argparse.FileType("w") opens the -o path while the arguments are parsed
ParseArgs ==
    /\ step = "parse_args"
    /\ \E path \in InputPaths, output \in BOOLEAN, debug \in BOOLEAN :
         /\ args' = [openapi |-> path, output |-> output, debug |-> debug]
         /\ outfile' = IF output THEN <<"text", "">> ELSE outfile
    /\ step' = "open"
    /\ UNCHANGED <<outfile0, stdout, code>> /\ UNCHANGED convVars

\* line 31: open(args.openapi) raises
OpenFails ==
    /\ step = "open" /\ args.openapi \notin ExistingPaths
    /\ step' = "failed_open"
    /\ UNCHANGED <<args, outfile, outfile0, stdout, code>> /\ UNCHANGED convVars

\* lines 32-39: the file type is none of the two
Unsupported ==
    /\ step = "open" /\ args.openapi \in ExistingPaths
    /\ guess_type(args.openapi) \notin {"application/json", "application/yaml"}
    /\ step' = "failed_filetype"
    /\ UNCHANGED <<args, outfile, outfile0, stdout, code>> /\ UNCHANGED convVars

\* lines 32-41: json.load or yaml.load gives the document, and the function is called on it
Load ==
    /\ step = "open" /\ args.openapi \in ExistingPaths
    /\ guess_type(args.openapi) \in {"application/json", "application/yaml"}
    /\ spec' \in LoadedDocs
    /\ step' = "call"
    /\ pc' = "loop"
    /\ UNCHANGED <<i, models, forward_refs, main>>
    /\ UNCHANGED <<args, outfile, outfile0, stdout, code>>

\* lines 35, 37: the loader raises on a malformed file
LoadFails ==
    /\ step = "open" /\ args.openapi \in ExistingPaths
    /\ guess_type(args.openapi) \in {"application/json", "application/yaml"}
    /\ step' = "failed_load"
    /\ UNCHANGED <<args, outfile, outfile0, stdout, code>> /\ UNCHANGED convVars

\* line 41: the exception of openapi_to_pydantic ends the script
CallRaises ==
    /\ step = "call" /\ pc = "raised"
    /\ step' = "failed_call"
    /\ UNCHANGED <<args, outfile, outfile0, stdout, code>> /\ UNCHANGED convVars

\* lines 43-58: the reduce over output_ops or debug_ops
Format ==
    /\ step = "call" /\ pc = "returned"
    /\ code' = <<"text", IF args.debug THEN "debug_ops" ELSE "output_ops", main>>
    /\ step' = "print"
    /\ UNCHANGED <<args, outfile, outfile0, stdout>> /\ UNCHANGED convVars

\* lines 44-47: one of the formatters (other packages) raises on the text it is given
FormatFails ==
    /\ step = "call" /\ pc = "returned" /\ ~args.debug
    /\ step' = "failed_format"
    /\ UNCHANGED <<args, outfile, outfile0, stdout, code>> /\ UNCHANGED convVars

\* line 60
PrintCode ==
    /\ step = "print"
    /\ IF args.output
       THEN outfile' = code /\ stdout' = stdout
       ELSE stdout' = code /\ outfile' = outfile
    /\ step' = "done"
    /\ UNCHANGED <<args, outfile0, code>> /\ UNCHANGED convVars

NextCli ==
    \/ ParseArgs \/ OpenFails \/ Unsupported \/ Load \/ LoadFails
    \/ ClassCase \/ TypedEnumCase \/ EnumCase \/ NoCase \/ Return
    \/ CallRaises \/ Format \/ FormatFails \/ PrintCode

SpecCli == InitCli /\ [][NextCli]_vars

----------------------------------------------------------------------------
(* Vocabulary of the properties *)

\* the emitted declarations that are pydantic classes, and the schema of a declaration
ClassModels == {k \in 1..Len(models) : models[k][3] = <<Name("BaseModel")>>}
SchemaOf(m) == MapGet(schemas, m[2])
PropsOf(m) == SchemaOf(m)["properties"]
AnnotationOf(m, j) == m[4][j][3]

IsOptional(t) == t[1] = "Subscript" /\ t[2] = Attribute(Name("typing"), "Optional")
Unwrapped(t) == IF IsOptional(t) THEN t[3] ELSE t

\* the names a type expression refers to by string
RECURSIVE NamedRefs(_)
NamedRefs(t) ==
    IF t[1] = "Constant" THEN {t[2]}
    ELSE IF t[1] = "Subscript" THEN NamedRefs(t[3])
    ELSE IF t[1] = "Tuple" THEN UNION {NamedRefs(t[2][k]) : k \in 1..Len(t[2])}
    ELSE {}

\* the class the k-th rebuild call is made on
RebuildName(call) == call[2][2][2][2]
Rebuilt == {RebuildName(forward_refs[k]) : k \in 1..Len(forward_refs)}

----------------------------------------------------------------------------
\* C1: a field's type is Optional[resolve(node)] exactly when the schema's required
\* list is non-empty and lacks the field's name, and resolve(node) otherwise; a
\* schema without a required key has no Optional field.
C1_OptionalIffRequiredNonEmptyAndAbsent ==
    \A k \in ClassModels :
        LET m == models[k]
            s == SchemaOf(m)
            props == PropsOf(m)
        IN  \A j \in 1..Len(props) :
                LET t == get_type_annotation(props[j][2], spec)
                    wrapped == /\ Has(s, "required") /\ s["required"] # <<>>
                               /\ \A r \in 1..Len(s["required"]) : s["required"][r] # props[j][1]
                IN  /\ wrapped => AnnotationOf(m, j) = Optional(t)
                    /\ ~wrapped => AnnotationOf(m, j) = t /\ ~IsOptional(AnnotationOf(m, j))

\* a class with a required list was emitted with a wrapped and an unwrapped field
C1_Witness ==
    \E k \in ClassModels :
        LET m == models[k]
        IN  /\ Has(SchemaOf(m), "required") /\ SchemaOf(m)["required"] # <<>>
            /\ \E j \in 1..Len(PropsOf(m)) : IsOptional(AnnotationOf(m, j))
            /\ \E j \in 1..Len(PropsOf(m)) : ~IsOptional(AnnotationOf(m, j))

----------------------------------------------------------------------------
(* The rules of resolve as an ordered list: the first whose shape the node has *)

RuleMatches(rule, n, anyPointer) ==
    IF rule = "integer" THEN TypeIs(n, "integer")
    ELSE IF rule = "date-time" THEN TypeIs(n, "string") /\ FormatIs(n, "date-time")
    ELSE IF rule = "uuid" THEN TypeIs(n, "string") /\ (FormatIs(n, "uuid") \/ FormatIs(n, "uuid4"))
    ELSE IF rule = "string" THEN TypeIs(n, "string")
    ELSE IF rule = "boolean" THEN TypeIs(n, "boolean")
    ELSE IF rule = "$ref" THEN Has(n, "$ref") /\ (anyPointer \/ SubSeq(n["$ref"], 1, 2) = <<"#", "/">>)
    ELSE IF rule = "array" THEN TypeIs(n, "array") /\ Has(n, "items")
    ELSE IF rule = "anyOf" THEN Has(n, "anyOf")
    ELSE Has(n, "allOf") /\ Len(n["allOf"]) = 1

FirstRule(order, n, anyPointer) ==
    LET hits == {r \in 1..Len(order) : RuleMatches(order[r], n, anyPointer)}
    IN  IF hits = {} THEN "default"
        ELSE order[CHOOSE r \in hits : \A q \in hits : r <= q]

RECURSIVE ResolveBy(_, _, _, _)
ResolveBy(order, n, doc, anyPointer) ==
    LET rule == FirstRule(order, n, anyPointer)
    IN  IF rule = "integer" THEN Name("int")
        ELSE IF rule = "date-time" THEN Name("datetime")
        ELSE IF rule = "uuid" THEN Name("UUID")
        ELSE IF rule = "string" THEN Name("str")
        ELSE IF rule = "boolean" THEN Name("bool")
        ELSE IF rule = "$ref" THEN ref_annotation(n["$ref"], doc)
        ELSE IF rule = "array" THEN
            LET e == ResolveBy(order, n["items"], doc, anyPointer)
            IN  IF IsRaise(e) THEN e ELSE Subscript(Name("list"), e)
        ELSE IF rule = "anyOf" THEN
            LET es == [k \in 1..Len(n["anyOf"]) |-> ResolveBy(order, n["anyOf"][k], doc, anyPointer)]
            IN  IF AnyRaise(es) THEN FirstRaise(es)
                ELSE Subscript(Attribute(Name("typing"), "Union"), Tuple(es))
        ELSE IF rule = "allOf" THEN ResolveBy(order, n["allOf"][1], doc, anyPointer)
        ELSE Attribute(Name("typing"), "Any")

\* the order the specification lists, and the order of the case clauses
ListedOrder == <<"integer", "date-time", "uuid", "string", "boolean", "$ref", "array", "anyOf", "allOf">>
ClauseOrder == <<"integer", "date-time", "uuid", "string", "$ref", "array", "anyOf", "allOf", "boolean">>

\* every emitted field has the type the ordered rules give, and a schema whose
\* conversion raised has a property on which they raise
ResolvedBy(order, anyPointer) ==
    /\ \A k \in ClassModels :
          \A j \in 1..Len(PropsOf(models[k])) :
              Unwrapped(AnnotationOf(models[k], j)) = ResolveBy(order, PropsOf(models[k])[j][2], spec, anyPointer)
    /\ pc = "raised" =>
          \E j \in 1..Len(schemas[i][2]["properties"]) :
              IsRaise(ResolveBy(order, schemas[i][2]["properties"][j][2], spec, anyPointer))

----------------------------------------------------------------------------
(* The nodes resolve visits below a property, and the pointers of a document *)

RECURSIVE Reached(_)
Reached(n) ==
    LET rule == FirstRule(ClauseOrder, n, FALSE)
    IN  {n} \cup (IF rule = "array" THEN Reached(n["items"])
                  ELSE IF rule = "anyOf" THEN UNION {Reached(n["anyOf"][k]) : k \in 1..Len(n["anyOf"])}
                  ELSE IF rule = "allOf" THEN Reached(n["allOf"][1])
                  ELSE {})

\* the pointers to the nodes at or below n that have a title, n being at ptr
RECURSIVE TitledUnder(_, _)
TitledUnder(n, ptr) ==
    (IF Has(n, "title") THEN {ptr} ELSE {})
    \cup (IF Has(n, "items") THEN TitledUnder(n["items"], ptr \o <<"/", "items">>) ELSE {})
    \cup (IF Has(n, "properties")
          THEN UNION {TitledUnder(n["properties"][k][2], ptr \o <<"/", "properties", "/", n["properties"][k][1]>>) :
                        k \in 1..Len(n["properties"])}
          ELSE {})

\* the pointers that resolve inside the document to a target with a title
TitledPointers(doc) ==
    {<<"#", "/", "info">>}
    \cup UNION {TitledUnder(doc["components"]["schemas"][k][2], RefTo(doc["components"]["schemas"][k][1])) :
                  k \in 1..Len(doc["components"]["schemas"])}

PointerOk(n) == n["$ref"] \in TitledPointers(spec)
LooksUpRef(n) ==
    /\ Has(n, "$ref") /\ SubSeq(n["$ref"], 1, 2) = <<"#", "/">>
    /\ ~TypeIs(n, "integer") /\ ~TypeIs(n, "string")
Without(n, key) == [x \in DOMAIN n \ {key} |-> n[x]]

\* the nodes resolve visited in the classes that were emitted
VisitedNodes ==
    UNION {UNION {Reached(PropsOf(models[k])[j][2]) : j \in 1..Len(PropsOf(models[k]))} : k \in ClassModels}

\* C3 as stated: a visited node with a $ref whose pointer does not resolve in the
\* document, or whose target has no title, makes the conversion fail: no class is
\* emitted from such a node, and a failed conversion produces no module.
C3_BadRefAlwaysFatal ==
    /\ \A n \in VisitedNodes : Has(n, "$ref") => PointerOk(n)
    /\ pc = "raised" => main = Module(<<>>)

\* C3 amended: a visited node whose type is neither integer nor string, with a $ref
\* that starts with "#/" and does not resolve or whose target has no title, makes the
\* conversion fail and no module is produced; any other $ref is not looked up, the
\* field resolving as if the key were absent.
C3_LookedUpBadRefFatal ==
    /\ \A n \in VisitedNodes : LooksUpRef(n) => PointerOk(n)
    /\ \A k \in ClassModels : \A j \in 1..Len(PropsOf(models[k])) :
          LET n == PropsOf(models[k])[j][2]
          IN  Has(n, "$ref") /\ ~LooksUpRef(n) =>
                Unwrapped(AnnotationOf(models[k], j)) = get_type_annotation(Without(n, "$ref"), spec)
    /\ pc = "raised" =>
          /\ main = Module(<<>>)
          /\ \E j \in 1..Len(schemas[i][2]["properties"]) :
                \E n \in Reached(schemas[i][2]["properties"][j][2]) : LooksUpRef(n) /\ ~PointerOk(n)

\* the conversion failed on a pointer to a missing schema, and on one to a schema
\* without a title
C3_Witness ==
    /\ pc = "raised" /\ Len(schemas) = 2
    /\ \E j \in 1..Len(schemas[i][2]["properties"]) :
          \E n \in Reached(schemas[i][2]["properties"][j][2]) :
              LooksUpRef(n) /\ n["$ref"] = RefTo("B") /\ ~Has(schemas[2][2], "title")

----------------------------------------------------------------------------
\* C4: the returned body is the imports, then the declarations in the order of the
\* schema keys, then the rebuild calls: one for each flagged class, in the order in
\* which the classes were declared.
C4_ImportsModelsRebuilds ==
    pc = "returned" =>
        LET body == main[2]
            P == Len(module_imports)
            M == Len(models)
            R == Len(body) - P - M
            keyAt(name) == CHOOSE k \in 1..Len(schemas) : schemas[k][1] = name
            flagged == {models[k][2] : k \in {q \in ClassModels : any_has_ref(PropsOf(models[q]))}}
        IN  /\ R >= 0
            /\ SubSeq(body, 1, P) = module_imports
            /\ \A k \in 1..M : body[P + k][1] = "ClassDef" /\ MapHas(schemas, body[P + k][2])
            /\ \A k \in 1..M : \A q \in 1..M : k < q => keyAt(body[P + k][2]) < keyAt(body[P + q][2])
            /\ \A k \in 1..R : body[P + M + k][1] = "Expr" /\ RebuildName(body[P + M + k]) \in flagged
            /\ \A c \in flagged : Cardinality({k \in 1..R : RebuildName(body[P + M + k]) = c}) = 1
            /\ \A k \in 1..R : \A q \in 1..R :
                  k < q => keyAt(RebuildName(body[P + M + k])) < keyAt(RebuildName(body[P + M + q]))

\* a module with two rebuild calls was returned
C4_Witness == pc = "returned" /\ Len(forward_refs) >= 2 /\ Len(main[2]) = Len(module_imports) + 4

----------------------------------------------------------------------------
\* a $ref anywhere below the node through items and anyOf, whatever else the node has
RECURSIVE ContainsRef(_)
ContainsRef(n) ==
    \/ Has(n, "$ref")
    \/ TypeIs(n, "array") /\ Has(n, "items") /\ ContainsRef(n["items"])
    \/ Has(n, "anyOf") /\ \E k \in 1..Len(n["anyOf"]) : ContainsRef(n["anyOf"][k])

\* the same, an array with items being judged by its items alone
RECURSIVE CarriesRef(_)
CarriesRef(n) ==
    \/ Has(n, "$ref")
    \/ /\ ~Has(n, "$ref")
       /\ TypeIs(n, "array") /\ Has(n, "items") /\ CarriesRef(n["items"])
    \/ /\ ~Has(n, "$ref") /\ ~(TypeIs(n, "array") /\ Has(n, "items"))
       /\ Has(n, "anyOf") /\ \E k \in 1..Len(n["anyOf"]) : CarriesRef(n["anyOf"][k])

\* C5 as stated: a class is flagged for rebuild iff one of its property schemas
\* contains a $ref directly, in array items or in an anyOf branch, whatever other
\* keys the property node has.
C5_FlaggedIffContainsRef ==
    \A k \in ClassModels :
        models[k][2] \in Rebuilt <=>
            \E j \in 1..Len(PropsOf(models[k])) : ContainsRef(PropsOf(models[k])[j][2])

\* C5 amended: a class is flagged iff one of its property schemas has a $ref itself,
\* or, having none, is an array with items that satisfy this, or, being neither, has
\* an anyOf branch that satisfies this.
C5_FlaggedIffCarriesRef ==
    \A k \in ClassModels :
        models[k][2] \in Rebuilt <=>
            \E j \in 1..Len(PropsOf(models[k])) : CarriesRef(PropsOf(models[k])[j][2])

\* a class was flagged through an anyOf branch, and one whose array property has a
\* $ref in an anyOf branch only was emitted
C5_Witness ==
    \E k \in ClassModels : \E j \in 1..Len(PropsOf(models[k])) :
        LET n == PropsOf(models[k])[j][2]
        IN  \/ models[k][2] \in Rebuilt /\ ~Has(n, "$ref") /\ Has(n, "anyOf")
            \/ models[k][2] \notin Rebuilt /\ Has(n, "items") /\ Has(n, "anyOf") /\ ContainsRef(n)

----------------------------------------------------------------------------
Alphabet == <<"a", "b", "c", "d", "e", "f", "g", "h", "i", "j", "k", "l", "m",
              "n", "o", "p", "q", "r", "s", "t", "u", "v", "w", "x", "y", "z">>
LowercaseLetters == {Alphabet[k] : k \in 1..Len(Alphabet)}

\* the emitted declarations of integer enums
IntEnumModels == {k \in 1..Len(models) : models[k][3] = <<Name("int"), Name("Enum")>>}

\* C6: an integer enum of n values has n members in enumeration order, the k-th
\* named by the k-th lowercase letter from "a" and bound to the k-th value, the
\* names being pairwise distinct lowercase letters for every n.
C6_IntegerEnumLetters ==
    \A e \in IntEnumModels :
        LET body == models[e][4]
            values == SchemaOf(models[e])["enum"]
            id(k) == body[k][2][2][2]
        IN  /\ Len(body) = Len(values)
            /\ \A k \in 1..Len(body) :
                  /\ body[k][1] = "Assign" /\ body[k][2][2][1] = "str"
                  /\ body[k][3] = Constant(values[k])
                  /\ id(k) \in LowercaseLetters
                  /\ k <= Len(Alphabet) => id(k) = Alphabet[k]
            /\ \A k \in 1..Len(body) : \A q \in 1..Len(body) : k # q => id(k) # id(q)

----------------------------------------------------------------------------
(* The declaration a schema gives, by its shape *)

IsObjectWithProperties(sc) == TypeIs(sc, "object") /\ Has(sc, "properties")
IsTypedEnum(sc) == ~IsObjectWithProperties(sc) /\ Has(sc, "type") /\ Has(sc, "enum")
IsUntypedEnum(sc) == ~Has(sc, "type") /\ Has(sc, "enum")
Declares(sc) == IsObjectWithProperties(sc) \/ IsTypedEnum(sc) \/ IsUntypedEnum(sc)

\* the schemas the loop has gone through, and those of them that give a declaration
Done == 1..(i - 1)
Declared == {k \in Done : Declares(schemas[k][2])}
ModelFor(k) == models[Cardinality({q \in Declared : q <= k})]

\* C7: the declarations are the schemas of the three shapes, in order and named by
\* their key: an object with properties gives a class with a field per property in
\* order, type with enum an enum with the base kind of the type, enum alone an enum
\* without base kind; any other schema gives nothing and raises nothing.
C7_DeclarationsByShape ==
    /\ Len(models) = Cardinality(Declared)
    /\ \A k \in Declared :
          LET m == ModelFor(k)
              sc == schemas[k][2]
          IN  /\ m[1] = "ClassDef" /\ m[2] = schemas[k][1]
              /\ IsObjectWithProperties(sc) =>
                    /\ m[3] = <<Name("BaseModel")>>
                    /\ Len(m[4]) = Len(sc["properties"])
                    /\ \A j \in 1..Len(m[4]) :
                          m[4][j][1] = "AnnAssign" /\ m[4][j][2] = Name(sc["properties"][j][1])
              /\ IsTypedEnum(sc) =>
                    /\ m[3] = (IF sc["type"] = "string" THEN <<Name("str"), Name("Enum")>>
                               ELSE IF sc["type"] = "integer" THEN <<Name("int"), Name("Enum")>>
                               ELSE <<Name("Enum")>>)
                    /\ Len(m[4]) = Len(sc["enum"])
                    /\ \A j \in 1..Len(m[4]) : m[4][j][1] = "Assign" /\ m[4][j][3] = Constant(sc["enum"][j])
              /\ IsUntypedEnum(sc) =>
                    /\ m[3] = <<Name("Enum")>>
                    /\ Len(m[4]) = Len(sc["enum"])
                    /\ \A j \in 1..Len(m[4]) : m[4][j] = Assign(Name(sc["enum"][j]), Constant(sc["enum"][j]))
    /\ pc = "raised" => IsObjectWithProperties(schemas[i][2])
    /\ pc = "returned" => i = Len(schemas) + 1

\* a module was returned for a document with a schema of no shape next to a
\* declared one, and for one with an object that also has an enum
C7_Witness ==
    /\ pc = "returned"
    /\ \/ Len(schemas) = 2 /\ Len(models) = 1
       \/ \E k \in Declared : IsObjectWithProperties(schemas[k][2]) /\ Has(schemas[k][2], "enum")

----------------------------------------------------------------------------
\* C9: in a returned module every name a field type refers to is the name of a
\* declaration of the module.
C9_ReferencesAreDeclared ==
    pc = "returned" =>
        \A k \in ClassModels : \A j \in 1..Len(models[k][4]) :
            NamedRefs(AnnotationOf(models[k], j)) \subseteq {models[q][2] : q \in 1..Len(models)}

\* C10: a class with a field type that refers to a name has its rebuild call.
C10_EveryReferenceRebuilt ==
    \A k \in ClassModels :
        (\E j \in 1..Len(models[k][4]) : NamedRefs(AnnotationOf(models[k], j)) # {})
            => models[k][2] \in Rebuilt

----------------------------------------------------------------------------
Failed == {"failed_open", "failed_filetype", "failed_load", "failed_call", "failed_format"}

\* C8: a run that ends in a fatal condition leaves the path given with -o as it was
\* before the run, and a file type failure comes before any step of the conversion.
C8_NoArtifactOnFailure ==
    /\ step \in Failed => outfile = outfile0
    /\ step = "failed_filetype" => pc = "idle"

====
